---- MODULE Spec2Model ----
(***************************************************************************)
(* The Legal_researcher workflow: a LangGraph StateGraph over AgentState   *)
(* whose nodes are supervisor, router, llm_agent, rag_agent, web_crawler,  *)
(* validator and finalizer (main.py).  Every node takes the AgentState,    *)
(* assigns some of its fields and returns it; the graph's edges pick the   *)
(* next node from the returned state.                                      *)
(*                                                                         *)
(* A text (Python str) is a sequence of tokens; " " is a whitespace token. *)
(* An Optional[T] field is None (the empty tuple) or Some(x) (the tuple    *)
(* holding x), so that "is not None" and the value are both kept.          *)
(***************************************************************************)
EXTENDS Integers, Sequences, FiniteSets, TLC

VARIABLES
    state,      \* the AgentState threaded through the graph
    pc,         \* the node the graph runs next, "END", or "raised"
    trace,      \* history: the nodes executed so far, in order
    writers,    \* history: the nodes that assigned final_response, in order
    calls,      \* history: the external capabilities invoked, in order
    decisions,  \* history: the branch supervisor_node took on each pass
    web_content,\* the content web_crawler_agent last handed to web_chain
    classified, \* history: the categories router_chain returned, in order
    runs        \* SpecRuns only: the graph.invoke calls in progress, each
                \* with its own AgentState, next node and the results its
                \* nodes obtained so far

vars == <<state, pc, trace, writers, calls, decisions, web_content, classified,
          runs>>

----------------------------------------------------------------------------
(* Bounds of the model *)

\* largest retry_count a caller hands to graph.invoke in SpecInvoke
MaxInitRetry == 3

\* number of direct supervisor_node applications in SpecSupervisor
MaxPasses == 4

\* number of direct router_node applications in SpecRouter
MaxRouterCalls == 3

----------------------------------------------------------------------------
(* Optional values and texts *)

None == <<>>

Some(x) == <<x>>

Value(o) == o[1]

IsSpace(tok) == tok = " "

RECURSIVE lstrip(_)
lstrip(text) ==
    IF text # <<>> /\ IsSpace(Head(text)) THEN lstrip(Tail(text)) ELSE text

RECURSIVE rstrip(_)
rstrip(text) ==
    IF text # <<>> /\ IsSpace(text[Len(text)])
    THEN rstrip(SubSeq(text, 1, Len(text) - 1))
    ELSE text

\* str.strip()
strip(text) == rstrip(lstrip(text))

----------------------------------------------------------------------------
(* The fixed messages of supervisor_node *)

RETRY_LIMIT_MSG ==
    <<"Your query could not be validated after multiple attempts. ",
      "Please rephrase and try again later.">>

NON_LEGAL_MSG ==
    <<"We can assist with legal queries only. ",
      "Please reframe your question to focus on legal topics such as law, court procedures, or the constitution.">>

AMBIGUOUS_MSG ==
    <<"Your query seems unclear or ambiguous. ",
      "Please rephrase it more clearly, focusing on specific legal issues.">>

ROUTE_TO_ROUTER == "route_to_router"

\* the retry limit of supervisor_node
MAX_RETRIES == 2

----------------------------------------------------------------------------
(* What the callers and the external capabilities can return *)

Queries == {<<"anticipatory bail">>, <<"asdf">>}

\* validator_chain of the supervisor: PreValidationOutput
PreValidationOutputs ==
    [is_legal : BOOLEAN, is_clear : BOOLEAN, reason : {<<"justification">>}]

\* router_chain: QueryTypeOutput.query_type is any str; the prompt names
\* llm, rag and web, the module docstring names crawler
QueryTypeOutputs == {"llm", "rag", "web", "crawler"}

\* the text a generation chain returns, before strip()
RawResponses == {<<"A">>, <<" ", "B", " ">>, <<" ">>}

\* llm_chain of the validator: ValidationOutput
ValidationOutputs ==
    [is_valid : BOOLEAN, reason : {<<>>, <<"not", " ", "relevant">>}]

\* requests.get + BeautifulSoup: the page's text, or an exception
FetchOutcomes ==
    { [ok |-> TRUE,  text |-> <<"ruling", " ", "of", " ", "today">>],
      [ok |-> TRUE,  text |-> <<>>],
      [ok |-> FALSE, text |-> <<"timeout">>] }

\* text[:3000]
PAGE_LIMIT == 3000

----------------------------------------------------------------------------
(* AgentState *)

AgentState(query, retry_count) ==
    [ query                 |-> query,
      supervisor_decision   |-> None,
      query_type            |-> None,
      route                 |-> None,
      intermediate_response |-> None,
      final_response        |-> None,
      validation_output     |-> None,
      retry_count           |-> retry_count ]

----------------------------------------------------------------------------
(* nodes/supervisor.py *)

\* mutant: the safeguard compares with > instead of >=
RetryLimitReached_strict(s) == s.retry_count > MAX_RETRIES

\* the retry limit safeguard: if state.retry_count >= 2
RetryLimitReached(s) == s.retry_count >= MAX_RETRIES

\* the branch supervisor_node takes on a state and a pre-validation result
supervisor_branch(s, validated) ==
    IF RetryLimitReached(s) THEN "retry_limit"
    ELSE IF ~validated.is_legal THEN "non_legal"
    ELSE IF ~validated.is_clear THEN "ambiguous"
    ELSE "admit"

\* mutant: the non-legal branch counts a retry, like the ambiguous branch
supervisor_node_nonlegal_counts(s, validated) ==
    IF RetryLimitReached(s)
    THEN [s EXCEPT !.final_response = Some(RETRY_LIMIT_MSG),
                   !.supervisor_decision = None]
    ELSE IF ~validated.is_legal
    THEN [s EXCEPT !.retry_count = @ + 1,
                   !.final_response = Some(NON_LEGAL_MSG),
                   !.supervisor_decision = None]
    ELSE IF ~validated.is_clear
    THEN [s EXCEPT !.retry_count = @ + 1,
                   !.final_response = Some(AMBIGUOUS_MSG),
                   !.supervisor_decision = None]
    ELSE [s EXCEPT !.supervisor_decision = Some(ROUTE_TO_ROUTER)]

\* mutant: the ambiguous branch tests the limit after counting the retry
supervisor_node_limit_after_increment(s, validated) ==
    IF RetryLimitReached(s)
    THEN [s EXCEPT !.final_response = Some(RETRY_LIMIT_MSG),
                   !.supervisor_decision = None]
    ELSE IF ~validated.is_legal
    THEN [s EXCEPT !.final_response = Some(NON_LEGAL_MSG),
                   !.supervisor_decision = None]
    ELSE IF ~validated.is_clear
    THEN [s EXCEPT !.retry_count = @ + 1,
                   !.final_response =
                       IF s.retry_count + 1 >= MAX_RETRIES
                       THEN Some(RETRY_LIMIT_MSG)
                       ELSE Some(AMBIGUOUS_MSG),
                   !.supervisor_decision = None]
    ELSE [s EXCEPT !.supervisor_decision = Some(ROUTE_TO_ROUTER)]

\* mutant: admitting a query starts its retry budget afresh
supervisor_node_admit_resets(s, validated) ==
    IF RetryLimitReached(s)
    THEN [s EXCEPT !.final_response = Some(RETRY_LIMIT_MSG),
                   !.supervisor_decision = None]
    ELSE IF ~validated.is_legal
    THEN [s EXCEPT !.final_response = Some(NON_LEGAL_MSG),
                   !.supervisor_decision = None]
    ELSE IF ~validated.is_clear
    THEN [s EXCEPT !.retry_count = @ + 1,
                   !.final_response = Some(AMBIGUOUS_MSG),
                   !.supervisor_decision = None]
    ELSE [s EXCEPT !.supervisor_decision = Some(ROUTE_TO_ROUTER),
                   !.retry_count = 0]

\* mutant: the ambiguous branch counts the retry but sets no message
supervisor_node_ambiguous_no_message(s, validated) ==
    IF RetryLimitReached(s)
    THEN [s EXCEPT !.final_response = Some(RETRY_LIMIT_MSG),
                   !.supervisor_decision = None]
    ELSE IF ~validated.is_legal
    THEN [s EXCEPT !.final_response = Some(NON_LEGAL_MSG),
                   !.supervisor_decision = None]
    ELSE IF ~validated.is_clear
    THEN [s EXCEPT !.retry_count = @ + 1,
                   !.supervisor_decision = None]
    ELSE [s EXCEPT !.supervisor_decision = Some(ROUTE_TO_ROUTER)]

\* supervisor_node: validated is what validator_chain.invoke returns; it is
\* not invoked (and validated is not read) when the retry limit is reached
supervisor_node(s, validated) ==
    IF RetryLimitReached(s)
    THEN [s EXCEPT !.final_response = Some(RETRY_LIMIT_MSG),
                   !.supervisor_decision = None]
    ELSE IF ~validated.is_legal
    THEN [s EXCEPT !.final_response = Some(NON_LEGAL_MSG),
                   !.supervisor_decision = None]
    ELSE IF ~validated.is_clear
    THEN [s EXCEPT !.retry_count = @ + 1,
                   !.final_response = Some(AMBIGUOUS_MSG),
                   !.supervisor_decision = None]
    ELSE [s EXCEPT !.supervisor_decision = Some(ROUTE_TO_ROUTER)]

\* the capabilities supervisor_node invokes on s
supervisor_calls(s) ==
    IF RetryLimitReached(s) THEN <<>> ELSE <<"validator_chain">>

----------------------------------------------------------------------------
(* nodes/router.py *)

\* mutant: a category outside llm, rag, web is stored as llm
router_node_downgrades(s, result) ==
    IF result \in {"llm", "rag", "web"}
    THEN [s EXCEPT !.query_type = Some(result), !.route = Some(result)]
    ELSE [s EXCEPT !.query_type = Some("llm"), !.route = Some("llm")]

\* mutant: route is aligned with the query_type held before the call
router_node_route_lags(s, result) ==
    [s EXCEPT !.query_type = Some(result), !.route = s.query_type]

router_node(s, result) ==
    [s EXCEPT !.query_type = Some(result), !.route = Some(result)]

----------------------------------------------------------------------------
(* utils/web_utils.py *)

Min(a, b) == IF a < b THEN a ELSE b

\* mutant: a failed fetch yields no text at all
fetch_legal_webpage_silent(outcome) ==
    IF outcome.ok
    THEN SubSeq(outcome.text, 1, Min(Len(outcome.text), PAGE_LIMIT))
    ELSE <<>>

fetch_legal_webpage(outcome) ==
    IF outcome.ok
    THEN SubSeq(outcome.text, 1, Min(Len(outcome.text), PAGE_LIMIT))
    ELSE <<"Failed to fetch content: ">> \o outcome.text

----------------------------------------------------------------------------
(* agents/llm_agent.py, agents/rag_agent.py, agents/web_crawler.py *)

\* mutant: the responder also delivers its draft as the final response
llm_agent_writes_final(s, response) ==
    [s EXCEPT !.intermediate_response = Some(strip(response)),
              !.final_response = Some(strip(response))]

llm_agent(s, response) ==
    [s EXCEPT !.intermediate_response = Some(strip(response))]

rag_agent(s, response) ==
    [s EXCEPT !.intermediate_response = Some(strip(response))]

web_crawler_agent(s, response) ==
    [s EXCEPT !.intermediate_response = Some(strip(response))]

----------------------------------------------------------------------------
(* nodes/validation_node.py *)

\* mutant: a rejected draft consumes one retry
validate_response_fn_consumes_retry(s, result) ==
    [s EXCEPT !.validation_output = Some(result),
              !.final_response = Some(result.reason),
              !.retry_count = IF result.is_valid THEN @ ELSE @ + 1]

\* mutant: the validator records its verdict only
validate_response_fn_verdict_only(s, result) ==
    [s EXCEPT !.validation_output = Some(result)]

validate_response_fn(s, result) ==
    [s EXCEPT !.validation_output = Some(result),
              !.final_response = Some(result.reason)]

----------------------------------------------------------------------------
(* nodes/finalizer.py *)

\* mutant: the finalizer keeps the final_response it finds
finalize_response_keeps(s) == s

finalize_response(s) ==
    [s EXCEPT !.final_response = s.intermediate_response]

----------------------------------------------------------------------------
(* main.py: the edges of the graph *)

\* mutant: the two targets of the supervisor's edge are exchanged
supervisor_edge_swapped(s) ==
    IF s.final_response # None THEN "router" ELSE "END"

\* mutant: the supervisor's edge follows supervisor_decision
supervisor_edge_by_decision(s) ==
    IF s.supervisor_decision = None THEN "END" ELSE "router"

\* mutant: a query judged ambiguous is sent through the supervisor again
supervisor_edge_retries_ambiguous(s) ==
    IF s.final_response = Some(AMBIGUOUS_MSG) THEN "supervisor"
    ELSE IF s.final_response # None THEN "END"
    ELSE "router"

\* supervisor: lambda x: x.final_response is not None
supervisor_edge(s) ==
    IF s.final_response # None THEN "END" ELSE "router"

\* mutant: the web responder is keyed by the docstring's name, crawler
router_edge_crawler(s) ==
    IF s.query_type = Some("llm") THEN "llm_agent"
    ELSE IF s.query_type = Some("rag") THEN "rag_agent"
    ELSE IF s.query_type = Some("crawler") THEN "web_crawler"
    ELSE "raised"

\* router: lambda x: x.query_type; a value that is no key of the mapping
\* makes the graph raise
router_edge(s) ==
    IF s.query_type = Some("llm") THEN "llm_agent"
    ELSE IF s.query_type = Some("rag") THEN "rag_agent"
    ELSE IF s.query_type = Some("web") THEN "web_crawler"
    ELSE "raised"

\* mutant: the two targets of the validator's edge are exchanged
validator_edge_swapped(s) ==
    IF Value(s.validation_output).is_valid THEN "supervisor" ELSE "finalizer"

\* validator: lambda x: x.validation_output.is_valid
\* mutant: every draft goes on to the finalizer
validator_edge_always_finalizes(s) == "finalizer"

validator_edge(s) ==
    IF Value(s.validation_output).is_valid THEN "finalizer" ELSE "supervisor"

\* requests.get, which only fetch_legal_webpage (called by web_crawler_agent
\* before its chain) performs, and whether it raised
FetchCalls(node, outcome) ==
    IF node # "web_crawler" THEN <<>>
    ELSE IF outcome.ok THEN <<"requests.get">>
    ELSE <<"requests.get raised">>

\* the chains and the retriever each node invokes, in order
NodeCalls(node, s) ==
    CASE node = "supervisor"  -> supervisor_calls(s)
      [] node = "router"      -> <<"router_chain">>
      [] node = "llm_agent"   -> <<"llm_chain">>
      [] node = "rag_agent"   -> <<"retriever", "rag_chain">>
      [] node = "web_crawler" -> <<"web_chain">>
      [] node = "validator"   -> <<"validation_chain">>
      [] OTHER                -> <<>>

----------------------------------------------------------------------------
(* app.py *)

NO_RESPONSE_MSG == <<"No final response generated.">>

\* the truth value Python gives an Optional[str]: None and "" are false
Truthy(o) == o # None /\ Value(o) # <<>>

\* the text app.py shows for the state graph.invoke returned
assistant_response(s) ==
    IF Truthy(s.final_response) /\ s.supervisor_decision = None
    THEN Value(s.final_response)
    ELSE IF Truthy(s.final_response)
         THEN Value(s.final_response)
         ELSE NO_RESPONSE_MSG

----------------------------------------------------------------------------
(* Initial states *)

\* app.py and main.py: graph.invoke({"query": user_input})
Init ==
    /\ \E query \in Queries : state = AgentState(query, 0)
    /\ pc = "supervisor"
    /\ trace = <<>>
    /\ writers = <<>>
    /\ calls = <<>>
    /\ decisions = <<>>
    /\ web_content = None
    /\ classified = <<>>
    /\ runs = <<>>

\* graph.invoke, or supervisor_node, on an AgentState whose retry_count the
\* caller supplies
InitInvoke ==
    /\ \E query \in Queries, retry_count \in 0..MaxInitRetry :
           state = AgentState(query, retry_count)
    /\ pc = "supervisor"
    /\ trace = <<>>
    /\ writers = <<>>
    /\ calls = <<>>
    /\ decisions = <<>>
    /\ web_content = None
    /\ classified = <<>>
    /\ runs = <<>>

----------------------------------------------------------------------------
(* The steps of the graph: one node and the edge that follows it *)

SupervisorBody ==
    /\ pc = "supervisor"
    /\ \E validated \in PreValidationOutputs :
          /\ state' = supervisor_node(state, validated)
          /\ decisions' = Append(decisions, supervisor_branch(state, validated))
          /\ writers' = IF supervisor_branch(state, validated) = "admit"
                        THEN writers
                        ELSE Append(writers, "supervisor")
    /\ calls' = calls \o supervisor_calls(state)
    /\ trace' = Append(trace, "supervisor")
    /\ UNCHANGED <<web_content, classified, runs>>

SupervisorStep ==
    /\ SupervisorBody
    /\ pc' = supervisor_edge(state')

RouterStep ==
    /\ pc = "router"
    /\ \E result \in QueryTypeOutputs :
          /\ state' = router_node(state, result)
          /\ classified' = Append(classified, result)
    /\ pc' = router_edge(state')
    /\ calls' = calls \o NodeCalls("router", state)
    /\ trace' = Append(trace, "router")
    /\ UNCHANGED <<writers, decisions, web_content, runs>>

LlmAgentStep ==
    /\ pc = "llm_agent"
    /\ \E response \in RawResponses : state' = llm_agent(state, response)
    /\ pc' = "validator"
    /\ calls' = calls \o NodeCalls("llm_agent", state)
    /\ trace' = Append(trace, "llm_agent")
    /\ UNCHANGED <<writers, decisions, web_content, classified, runs>>

RagAgentStep ==
    /\ pc = "rag_agent"
    /\ \E response \in RawResponses : state' = rag_agent(state, response)
    /\ pc' = "validator"
    /\ calls' = calls \o NodeCalls("rag_agent", state)
    /\ trace' = Append(trace, "rag_agent")
    /\ UNCHANGED <<writers, decisions, web_content, classified, runs>>

WebCrawlerStep ==
    /\ pc = "web_crawler"
    /\ \E outcome \in FetchOutcomes, response \in RawResponses :
          /\ web_content' = Some(fetch_legal_webpage(outcome))
          /\ state' = web_crawler_agent(state, response)
          /\ calls' = calls \o FetchCalls("web_crawler", outcome)
                            \o NodeCalls("web_crawler", state)
    /\ pc' = "validator"
    /\ trace' = Append(trace, "web_crawler")
    /\ UNCHANGED <<writers, decisions, classified, runs>>

ValidatorStep ==
    /\ pc = "validator"
    /\ \E result \in ValidationOutputs : state' = validate_response_fn(state, result)
    /\ pc' = validator_edge(state')
    /\ calls' = calls \o NodeCalls("validator", state)
    /\ trace' = Append(trace, "validator")
    /\ writers' = Append(writers, "validator")
    /\ UNCHANGED <<decisions, web_content, classified, runs>>

FinalizerStep ==
    /\ pc = "finalizer"
    /\ state' = finalize_response(state)
    /\ pc' = "END"
    /\ trace' = Append(trace, "finalizer")
    /\ writers' = Append(writers, "finalizer")
    /\ UNCHANGED <<calls, decisions, web_content, classified, runs>>

\* mutant: the supervisor counts the retry before it invokes its chain
CapabilityRaises_dirty ==
    /\ pc \in {"supervisor", "router", "llm_agent", "rag_agent",
               "web_crawler", "validator"}
    /\ \E k \in 1..Len(NodeCalls(pc, state)), outcome \in FetchOutcomes :
          /\ calls' = calls \o FetchCalls(pc, outcome)
                            \o SubSeq(NodeCalls(pc, state), 1, k)
          /\ web_content' = IF pc = "web_crawler"
                            THEN Some(fetch_legal_webpage(outcome))
                            ELSE web_content
    /\ pc' = "raised"
    /\ trace' = Append(trace, pc)
    /\ state' = IF pc = "supervisor"
                THEN [state EXCEPT !.retry_count = @ + 1]
                ELSE state
    /\ UNCHANGED <<writers, decisions, classified, runs>>

\* a capability call of the node raises: the exception leaves graph.invoke
\* before the node has assigned anything (fetch_legal_webpage, which
\* web_crawler_agent calls first, never raises)
CapabilityRaises ==
    /\ pc \in {"supervisor", "router", "llm_agent", "rag_agent",
               "web_crawler", "validator"}
    /\ \E k \in 1..Len(NodeCalls(pc, state)), outcome \in FetchOutcomes :
          /\ calls' = calls \o FetchCalls(pc, outcome)
                            \o SubSeq(NodeCalls(pc, state), 1, k)
          /\ web_content' = IF pc = "web_crawler"
                            THEN Some(fetch_legal_webpage(outcome))
                            ELSE web_content
    /\ pc' = "raised"
    /\ trace' = Append(trace, pc)
    /\ UNCHANGED <<state, writers, decisions, classified, runs>>

Next ==
    \/ SupervisorStep
    \/ RouterStep
    \/ LlmAgentStep
    \/ RagAgentStep
    \/ WebCrawlerStep
    \/ ValidatorStep
    \/ FinalizerStep
    \/ CapabilityRaises

Spec == Init /\ [][Next]_vars

SpecInvoke == InitInvoke /\ [][Next]_vars

\* graph.invoke is synchronous: it runs the next node until END or an
\* exception
SpecLive == Init /\ [][Next]_vars /\ WF_vars(Next)

\* supervisor_node applied again and again to the state it returned
SupervisorCall ==
    /\ Len(trace) < MaxPasses
    /\ SupervisorBody
    /\ pc' = pc

NextSupervisor == SupervisorCall

SpecSupervisor == InitInvoke /\ [][NextSupervisor]_vars

\* the states the supervisor admits: supervisor_node returned through its
\* last branch, on an AgentState as graph.invoke builds it
AdmittedStates ==
    { supervisor_node(s, validated) :
          s \in { a \in { AgentState(query, retry_count) :
                              query \in Queries,
                              retry_count \in 0..MaxInitRetry } :
                     ~RetryLimitReached(a) },
          validated \in { v \in PreValidationOutputs :
                               v.is_legal /\ v.is_clear } }

InitRouter ==
    /\ state \in AdmittedStates
    /\ pc = "router"
    /\ trace = <<>>
    /\ writers = <<>>
    /\ calls = <<>>
    /\ decisions = <<"admit">>
    /\ web_content = None
    /\ classified = <<>>
    /\ runs = <<>>

\* router_node applied again to the state it returned
RouterCall ==
    /\ Len(trace) < MaxRouterCalls
    /\ pc = "router"
    /\ \E result \in QueryTypeOutputs :
          /\ state' = router_node(state, result)
          /\ classified' = Append(classified, result)
    /\ calls' = calls \o NodeCalls("router", state)
    /\ trace' = Append(trace, "router")
    /\ UNCHANGED <<pc, writers, decisions, web_content, runs>>

NextRouter == RouterCall

SpecRouter == InitRouter /\ [][NextRouter]_vars

----------------------------------------------------------------------------
(* Several graph.invoke calls in progress at once: app.py calls             *)
(* graph.invoke({"query": user_input}) once per user input, each call on    *)
(* an AgentState of its own.  A run is its AgentState, the node it runs     *)
(* next, and the results its nodes have obtained so far.                    *)

RunIds == {1, 2}

\* the runs are for different queries
RunQuery(r) == IF r = 1 THEN <<"anticipatory bail">> ELSE <<"asdf">>

NewRun(query) ==
    [state |-> AgentState(query, 0), pc |-> "supervisor", results |-> <<>>]

\* what the capabilities a node calls can hand back to it
NodeResults(node) ==
    CASE node = "supervisor"  -> PreValidationOutputs
      [] node = "router"      -> QueryTypeOutputs
      [] node = "llm_agent"   -> RawResponses
      [] node = "rag_agent"   -> RawResponses
      [] node = "web_crawler" -> FetchOutcomes \X RawResponses
      [] node = "validator"   -> ValidationOutputs
      [] node = "finalizer"   -> {<<>>}

\* the node run.pc on the run's state with the result out, and the edge
\* that follows it
RunNode(run, out) ==
    LET s == run.state
        s2 == CASE run.pc = "supervisor"  -> supervisor_node(s, out)
                [] run.pc = "router"      -> router_node(s, out)
                [] run.pc = "llm_agent"   -> llm_agent(s, out)
                [] run.pc = "rag_agent"   -> rag_agent(s, out)
                [] run.pc = "web_crawler" -> web_crawler_agent(s, out[2])
                [] run.pc = "validator"   -> validate_response_fn(s, out)
                [] run.pc = "finalizer"   -> finalize_response(s)
        next == CASE run.pc = "supervisor" -> supervisor_edge(s2)
                  [] run.pc = "router"     -> router_edge(s2)
                  [] run.pc = "validator"  -> validator_edge(s2)
                  [] run.pc = "finalizer"  -> "END"
                  [] OTHER                 -> "validator"
    IN  [state |-> s2, pc |-> next,
         results |-> Append(run.results, [raised |-> FALSE, out |-> out])]

\* a capability call of the node run.pc raises
RunRaise(run) ==
    [state |-> run.state, pc |-> "raised",
     results |-> Append(run.results, [raised |-> TRUE, out |-> <<>>])]

\* graph.invoke on a run, its nodes obtaining the given results in order
RECURSIVE Replay(_, _)
Replay(run, results) ==
    IF Len(results) = 0 THEN run
    ELSE Replay(IF Head(results).raised
                THEN RunRaise(run)
                ELSE RunNode(run, Head(results).out),
                Tail(results))

\* one graph.invoke of its own, with no other run in progress
RunAlone(query, results) == Replay(NewRun(query), results)

InitRuns ==
    /\ runs = [r \in RunIds |-> NewRun(RunQuery(r))]
    /\ state = AgentState(RunQuery(1), 0)
    /\ pc = "supervisor"
    /\ trace = <<>>
    /\ writers = <<>>
    /\ calls = <<>>
    /\ decisions = <<>>
    /\ web_content = None
    /\ classified = <<>>

\* mutant: the runs share one AgentState object
RunStep_shared_state(r) ==
    /\ runs[r].pc \notin {"END", "raised"}
    /\ \E out \in NodeResults(runs[r].pc) :
          runs' = [o \in RunIds |->
                      IF o = r THEN RunNode(runs[r], out)
                      ELSE [runs[o] EXCEPT
                               !.state = RunNode(runs[r], out).state]]
    /\ UNCHANGED <<state, pc, trace, writers, calls, decisions, web_content,
                   classified>>

\* run r executes its next node
RunStep(r) ==
    /\ runs[r].pc \notin {"END", "raised"}
    /\ \E out \in NodeResults(runs[r].pc) :
          runs' = [runs EXCEPT ![r] = RunNode(runs[r], out)]
    /\ UNCHANGED <<state, pc, trace, writers, calls, decisions, web_content,
                   classified>>

\* a capability call of run r's next node raises
RunRaises(r) ==
    /\ runs[r].pc \notin {"END", "raised"}
    /\ NodeCalls(runs[r].pc, runs[r].state) # <<>>
    /\ runs' = [runs EXCEPT ![r] = RunRaise(runs[r])]
    /\ UNCHANGED <<state, pc, trace, writers, calls, decisions, web_content,
                   classified>>

NextRuns == \E r \in RunIds : RunStep(r) \/ RunRaises(r)

SpecRuns == InitRuns /\ [][NextRuns]_vars

----------------------------------------------------------------------------
(* Properties *)

Last(seq) == seq[Len(seq)]

\* the step is a supervisor pass that took the given branch
SupervisorTook(branch) ==
    pc = "supervisor" /\ decisions' = Append(decisions, branch)

\* C1: every run that ends without an exception ends right after the
\* supervisor or after the finalizer, and the state handed back to the
\* caller has a final_response that is not None.
C1_EndHasFinalResponse ==
    pc = "END" =>
        /\ Last(trace) \in {"supervisor", "finalizer"}
        /\ state.final_response # None

C1_Witness ==
    /\ pc = "END"
    /\ Last(trace) = "finalizer"
    /\ state.final_response = Some(<<"B">>)

\* C2: after any supervisor pass that admits the query, final_response is
\* unset, supervisor_decision is route_to_router and the router runs next;
\* the run ends at the supervisor only when the supervisor itself rejected.
C2_AdmitGoesToRouter ==
    [][ SupervisorTook("admit") =>
            /\ state'.final_response = None
            /\ state'.supervisor_decision = Some(ROUTE_TO_ROUTER)
            /\ pc' = "router" ]_vars

\* C3: the validator-rejection loop is unbounded: a run in which the
\* validator rejects every draft and the supervisor admits on every pass
\* keeps cycling and never ends.
C3_RejectAdmitNeverEnds ==
    ( /\ "finalizer" \notin {trace[i] : i \in 1..Len(trace)}
      /\ \A i \in 1..Len(decisions) : decisions[i] = "admit" )
    => pc # "END"

\* C4: final_response is set exactly when the run has reached a terminal
\* state; in particular it is unset between the validator and the
\* finalizer and on the edge from the validator back to the supervisor.
C4_FinalResponseIffTerminal ==
    pc # "raised" => (state.final_response # None <=> pc = "END")

\* C5: final_response is written exactly once in a run, by the finalizer
\* or by the supervisor on a rejection; no other node writes it and it is
\* never written again once set.
C5_FinalResponseWrittenOnce ==
    /\ Len(writers) <= 1
    /\ \A i \in 1..Len(writers) : writers[i] \in {"supervisor", "finalizer"}
    /\ pc = "END" => Len(writers) = 1

\* C6: a supervisor pass with retry_count < 2 whose legality check is
\* false ends the run right after it with the fixed legal-queries-only
\* message and retry_count unchanged; when it is the first pass, no other
\* node has run and query_type is unset.
C6_NonLegalEndsRun ==
    [][ SupervisorTook("non_legal") =>
            /\ state.retry_count < 2
            /\ pc' = "END"
            /\ state'.final_response = Some(NON_LEGAL_MSG)
            /\ state'.retry_count = state.retry_count
            /\ (decisions = <<>> =>
                    /\ trace' = <<"supervisor">>
                    /\ state'.query_type = None) ]_vars

C6_Witness ==
    /\ pc = "END"
    /\ decisions = <<"non_legal">>
    /\ trace = <<"supervisor">>
    /\ state.final_response = Some(NON_LEGAL_MSG)
    /\ state.query_type = None
    /\ state.retry_count = 1

\* two passes in a row were judged ambiguous
TwiceAmbiguous ==
    /\ Len(decisions) >= 2
    /\ decisions[Len(decisions)] = "ambiguous"
    /\ decisions[Len(decisions) - 1] = "ambiguous"

C8_RetryLimitEndsRun ==
    [][ (pc = "supervisor" /\ state.retry_count >= 2) =>
            /\ calls' = calls
            /\ decisions' = Append(decisions, "retry_limit")
            /\ state'.final_response = Some(RETRY_LIMIT_MSG)
            /\ state'.retry_count = state.retry_count
            /\ state'.supervisor_decision = None
            /\ pc' = "END"
            /\ trace' = <<"supervisor">> ]_vars

C8_Witness ==
    /\ pc = "END"
    /\ decisions = <<"retry_limit">>
    /\ calls = <<>>
    /\ state.retry_count = 2
    /\ state.final_response = Some(RETRY_LIMIT_MSG)

\* the step is a validator pass that rejected the draft
ValidatorRejects ==
    /\ pc = "validator"
    /\ pc' # "raised"
    /\ ~Value(state'.validation_output).is_valid

\* C9 (as claimed): when the validator rejects a draft, control returns to
\* the supervisor and retry_count is one greater than before.
C9_RejectConsumesRetry ==
    [][ ValidatorRejects =>
            /\ pc' = "supervisor"
            /\ state'.retry_count = state.retry_count + 1 ]_vars

\* C9 (amended): when the validator rejects a draft, control returns to the
\* supervisor and retry_count is what it was before the validator ran.
C9_RejectKeepsRetryCount ==
    [][ ValidatorRejects =>
            /\ pc' = "supervisor"
            /\ state'.retry_count = state.retry_count ]_vars

C9_Witness ==
    /\ pc = "supervisor"
    /\ Len(trace) > 0
    /\ Last(trace) = "validator"
    /\ state.validation_output # None
    /\ ~Value(state.validation_output).is_valid
    /\ state.retry_count = 0

\* C10: retry_count never decreases; the only step that changes it is the
\* supervisor's ambiguous branch, which adds exactly 1; every other step
\* (router, responders, validator and its edge back to the supervisor,
\* finalizer, the supervisor's other branches) leaves it unchanged.
C10_RetryCountFrame ==
    [][ IF SupervisorTook("ambiguous")
        THEN state'.retry_count = state.retry_count + 1
        ELSE state'.retry_count = state.retry_count ]_vars

C10_Witness ==
    /\ decisions = <<"admit", "ambiguous">>
    /\ "validator" \in {trace[i] : i \in 1..Len(trace)}
    /\ state.retry_count = 2
    /\ pc = "END"


\* the nodes executed so far
Executed == {trace[i] : i \in 1..Len(trace)}

\* C11: a supervisor pass that judges the query legal but not clear (with
\* retry_count < 2) is the last step of the run: retry_count grows by 1,
\* final_response is the fixed please-rephrase message and the graph goes
\* to END, neither back to the supervisor nor on to the router.
C11_AmbiguousExitsGraph ==
    [][ SupervisorTook("ambiguous") =>
            /\ state.retry_count < 2
            /\ state'.retry_count = state.retry_count + 1
            /\ state'.final_response = Some(AMBIGUOUS_MSG)
            /\ pc' = "END"
            /\ pc' \notin {"supervisor", "router"} ]_vars

C11_Witness ==
    /\ pc = "END"
    /\ decisions = <<"ambiguous">>
    /\ trace = <<"supervisor">>
    /\ state.retry_count = 1
    /\ state.final_response = Some(AMBIGUOUS_MSG)

Responders == {"llm_agent", "rag_agent", "web_crawler"}

\* the responder the claim maps each category to
ResponderOf(category) ==
    CASE category = "llm" -> "llm_agent"
      [] category = "rag" -> "rag_agent"
      [] category = "web" -> "web_crawler"

\* C13: after a router pass that yields llm, rag or web, the responder
\* mapped to that category runs next and no other responder runs; unless
\* its chain raises, it writes its output, stripped, into
\* intermediate_response, and the validator runs right after it.
C13_OneResponderThenValidator ==
    [][ /\ ( /\ pc = "router"
             /\ classified' # classified
             /\ Last(classified') \in {"llm", "rag", "web"} )
           => pc' = ResponderOf(Last(classified'))
        /\ pc \in Responders =>
              /\ Last(trace) = "router"
              /\ pc = ResponderOf(Last(classified))
              /\ Executed \cap Responders = {}
              /\ trace' = Append(trace, pc)
              /\ pc' \in {"validator", "raised"}
              /\ pc' = "validator" =>
                    /\ \E response \in RawResponses :
                          state'.intermediate_response = Some(strip(response))
                    /\ Value(state'.intermediate_response) # <<>> =>
                          /\ ~IsSpace(Head(Value(state'.intermediate_response)))
                          /\ ~IsSpace(Last(Value(state'.intermediate_response)))
        /\ pc = "validator" =>
              /\ Last(trace) \in Responders
              /\ Cardinality({i \in 1..Len(trace) : trace[i] \in Responders}) = 1
      ]_vars

C13_Witness ==
    /\ pc = "validator"
    /\ trace = <<"supervisor", "router", "web_crawler">>
    /\ classified = <<"web">>
    /\ state.intermediate_response = Some(<<"B">>)

\* C14: when the validator returns is_valid = true the finalizer runs next,
\* and in the terminal state final_response equals intermediate_response,
\* which neither the validator nor the finalizer has changed.
C14_AcceptedDraftIsFinal ==
    [][ /\ ( /\ pc = "validator"
             /\ pc' # "raised"
             /\ Value(state'.validation_output).is_valid )
           => /\ pc' = "finalizer"
              /\ state'.intermediate_response = state.intermediate_response
        /\ pc = "finalizer" =>
              /\ pc' = "END"
              /\ state'.intermediate_response = state.intermediate_response
              /\ state'.final_response = state.intermediate_response
              /\ state'.final_response # None
      ]_vars

C14_Witness ==
    /\ pc = "END"
    /\ Last(trace) = "finalizer"
    /\ Value(state.validation_output).is_valid
    /\ Value(state.validation_output).reason = <<"not", " ", "relevant">>
    /\ state.intermediate_response = Some(<<"A">>)
    /\ state.final_response = Some(<<"A">>)

\* C15: every node runs only when its precondition holds: the router only
\* when supervisor_decision is route_to_router, a responder only when
\* query_type is set, the validator only when intermediate_response is set
\* (validation_output is never set while intermediate_response is unset),
\* the finalizer only when validation_output.is_valid is true.
C15_NodePreconditions ==
    /\ pc = "router" => state.supervisor_decision = Some(ROUTE_TO_ROUTER)
    /\ pc \in Responders => state.query_type # None
    /\ pc = "validator" => state.intermediate_response # None
    /\ state.validation_output # None => state.intermediate_response # None
    /\ pc = "finalizer" =>
          /\ state.validation_output # None
          /\ Value(state.validation_output).is_valid

C15_Witness ==
    /\ pc = "finalizer"
    /\ state.supervisor_decision = Some(ROUTE_TO_ROUTER)
    /\ state.query_type = Some("llm")
    /\ state.intermediate_response # None
    /\ Value(state.validation_output).is_valid


\* the texts fetch_legal_webpage returns when requests.get raises
FetchErrorTexts ==
    { <<"Failed to fetch content: ">> \o outcome.text :
          outcome \in {o \in FetchOutcomes : ~o.ok} }

\* C16: a failed web fetch is not fatal: fetch_legal_webpage returns a text
\* describing the error, web_crawler_agent still invokes web_chain with
\* that text as content and (unless web_chain itself raises) writes
\* intermediate_response and hands over to the validator; the run then
\* goes on to its end.
C16_FetchFailureNotFatal ==
    /\ [][ ( /\ pc = "web_crawler"
             /\ calls' # calls
             /\ calls'[Len(calls) + 1] = "requests.get raised" )
           => /\ web_content' # None
              /\ Value(web_content') \in FetchErrorTexts
              /\ calls' = calls \o <<"requests.get raised", "web_chain">>
              /\ pc' \in {"validator", "raised"}
              /\ pc' = "validator" => state'.intermediate_response # None
         ]_vars
    /\ ( /\ pc = "validator"
         /\ Last(trace) = "web_crawler"
         /\ web_content # None
         /\ Value(web_content) \in FetchErrorTexts )
       ~> (pc \in {"END", "raised"})

C16_Witness ==
    /\ pc = "END"
    /\ Last(trace) = "finalizer"
    /\ classified = <<"web">>
    /\ web_content = Some(<<"Failed to fetch content: ", "timeout">>)
    /\ calls = <<"validator_chain", "router_chain", "requests.get raised",
                 "web_chain", "validation_chain">>
    /\ state.final_response = Some(<<"A">>)


\* the step is a node's capability call raising (the router's edge raising
\* on an unmapped category follows a router_chain call that returned)
CapabilityFailed ==
    /\ pc' = "raised"
    /\ classified' = classified

\* C17: a capability failure in any node is fatal: the node has changed
\* nothing in the state when the exception propagates, the run is aborted,
\* and no step follows (no later node runs, the failing call is not
\* retried).
C17_CapabilityFailureIsFatal ==
    [][ /\ pc # "raised"
        /\ CapabilityFailed =>
              /\ state' = state
              /\ writers' = writers
              /\ trace' = Append(trace, pc)
              /\ Len(calls') > Len(calls)
      ]_vars

C17_Witness ==
    /\ pc = "raised"
    /\ trace = <<"supervisor", "router", "rag_agent">>
    /\ calls = <<"validator_chain", "router_chain", "retriever">>
    /\ state.query_type = Some("rag")
    /\ state.intermediate_response = None
    /\ state.final_response = None

MappedCategories == {"llm", "rag", "web"}

----------------------------------------------------------------------------
\* C21: router_node invoked a second time on the state it returned, with
\* the same classification result, returns that state unchanged: the same
\* query_type, and the same whole AgentState, as invoking it once.
C21_RouterIdempotent ==
    [][ ( /\ classified # <<>>
          /\ classified' = Append(classified, Last(classified)) )
        => /\ state'.query_type = state.query_type
           /\ state' = state
      ]_vars

\* router_node has run twice with the result rag
C21_Witness ==
    /\ classified = <<"rag", "rag">>
    /\ trace = <<"router", "router">>
    /\ state.query_type = Some("rag")
    /\ state.route = Some("rag")
    /\ state.supervisor_decision = Some(ROUTE_TO_ROUTER)


----------------------------------------------------------------------------
\* the number of times a node of the given set has started in this run
Count(nodes) == Cardinality({i \in 1..Len(trace) : trace[i] \in nodes})

\* the run is over: graph.invoke returned, or raised
Terminated == pc = "END" \/ pc = "raised"

----------------------------------------------------------------------------
\* C23: in a run started through the application's entry point (the state
\* built from the query alone, retry_count 0) retry_count never exceeds 1,
\* the supervisor never takes its retry-limit branch, and the fixed
\* retry-limit message is never the run's final_response.
C23_RetryLimitUnreachable ==
    /\ state.retry_count <= 1
    /\ \A i \in 1..Len(decisions) : decisions[i] # "retry_limit"
    /\ state.final_response # Some(RETRY_LIMIT_MSG)

\* the only way retry_count grows: the second supervisor pass, after a
\* rejected draft, judges the query ambiguous and the run ends
C23_Witness ==
    /\ pc = "END"
    /\ decisions = <<"admit", "ambiguous">>
    /\ state.retry_count = 1
    /\ state.final_response = Some(AMBIGUOUS_MSG)
    /\ ~Value(state.validation_output).is_valid


----------------------------------------------------------------------------
\* the fixed messages supervisor_node writes when it turns a query down
SupervisorMessages == {RETRY_LIMIT_MSG, NON_LEGAL_MSG, AMBIGUOUS_MSG}

\* the run has ended with a draft the validator rejected
EndedRejected ==
    /\ pc = "END"
    /\ state.validation_output # None
    /\ ~Value(state.validation_output).is_valid

====
